---- MODULE Spec2Model ----
(***************************************************************************)
(* A model of src/redfish-walker.py: RedfishCrawler walks the resources of *)
(* a Redfish service depth first, saves every document it can parse and    *)
(* follows the @odata.id links that pass the visited and the scope check.  *)
(*                                                                         *)
(* Python strings are sequences of one-character strings, so that `in`,    *)
(* startswith, lstrip, urljoin and os.path.join are computed, not assumed. *)
(* A JSON value is a record [t, v]: t is the Python type of the parsed     *)
(* value ("obj" dict, "arr" list, "str", "num" for int/float/bool/None)    *)
(* and v its content: the (key, value) pairs of a dict in document order,  *)
(* the items of a list, the characters of a string.                        *)
(***************************************************************************)
EXTENDS Integers, Sequences, FiniteSets, TLC

VARIABLES service, run, status, exc, stack, visited, fetchLog, saveLog, files

vars == <<service, run, status, exc, stack, visited, fetchLog, saveLog, files>>

\* number of crawl() invocations made on one crawler object
MaxRuns == 2
\* number of session.get calls one crawl() may make before the model stops it
MaxFetches == 6

-----------------------------------------------------------------------------
(* Strings *)

StartsWith(s, p) == Len(s) >= Len(p) /\ SubSeq(s, 1, Len(p)) = p

\* Python `c in m` for two strings
IsSubstring(c, m) == \E i \in 0..(Len(m) - Len(c)) : SubSeq(m, i + 1, i + Len(c)) = c

RECURSIVE LStrip(_, _)
\* str.lstrip(chars): drops every leading character that is in the set chars
LStrip(s, chars) ==
  IF Len(s) > 0 /\ s[1] \in chars THEN LStrip(Tail(s), chars) ELSE s

RECURSIVE CutAt(_, _)
\* the part of s before the first character of the set stops
CutAt(s, stops) ==
  IF Len(s) = 0 \/ s[1] \in stops THEN <<>> ELSE <<s[1]>> \o CutAt(Tail(s), stops)

Chars(s) == {s[i] : i \in 1..Len(s)}

RedfishV1 == <<"/","r","e","d","f","i","s","h","/","v","1">>

Scheme == <<"h","t","t","p","s",":","/","/">>

\* the host_ip the crawler was constructed with
host_ip == <<"H">>

Origin == Scheme \o host_ip

base_url == Origin \o RedfishV1

\* the path of base_url up to and including its last "/"
BaseDir == <<"/","r","e","d","f","i","s","h","/">>

output_dir == <<"o","u","t">>

IndexJson == <<"i","n","d","e","x",".","j","s","o","n">>

OdataIdChars == <<"@","o","d","a","t","a",".","i","d">>

\* urljoin(self.base_url, ref): an absolute URL is kept, an absolute path
\* replaces the path of the base, a relative one its last segment
urljoin(ref) ==
  IF StartsWith(ref, Scheme) THEN ref
  ELSE IF Len(ref) = 0 THEN base_url
  ELSE IF ref[1] = "/" THEN Origin \o ref
  ELSE Origin \o BaseDir \o ref

\* urlparse(full_url).path: what follows the host, up to a query or fragment
UrlPath(full_url) ==
  LET afterScheme == SubSeq(full_url, Len(Scheme) + 1, Len(full_url))
      host == CutAt(afterScheme, {"/", "?", "#"})
      rest == SubSeq(afterScheme, Len(host) + 1, Len(afterScheme))
  IN  CutAt(rest, {"?", "#"})

\* os.path.join(a, b)
OsPathJoin(a, b) ==
  IF Len(b) > 0 /\ b[1] = "/" THEN b
  ELSE IF Len(a) = 0 \/ a[Len(a)] = "/" THEN a \o b
  ELSE a \o <<"/">> \o b

\* the index.json file _save_data writes the document of full_url to (lines 105-108)
StoragePath(full_url) ==
  LET relative_path == LStrip(UrlPath(full_url), Chars(RedfishV1))
      output_folder == OsPathJoin(output_dir, relative_path)
  IN  OsPathJoin(output_folder, IndexJson)

-----------------------------------------------------------------------------
(* JSON documents *)

Str(s) == [t |-> "str", v |-> s]
Num == [t |-> "num", v |-> <<>>]
Obj(kv) == [t |-> "obj", v |-> kv]
Arr(items) == [t |-> "arr", v |-> items]
NoData == [t |-> "none", v |-> <<>>]

\* {"@odata.id": id}
Ref(id) == Obj(<< <<"@odata.id", Str(id)>> >>)

HasKey(data, key) == \E i \in 1..Len(data.v) : data.v[i][1] = key

\* data[key] of a dict that has the key
GetKey(data, key) ==
  LET i == CHOOSE j \in 1..Len(data.v) : data.v[j][1] = key IN data.v[i][2]

\* `'@odata.id' in data` followed by `data['@odata.id']` (lines 70-71):
\* "present", "absent", or the TypeError Python raises for the value's type
RootCheck(data) ==
  CASE data.t = "obj" -> IF HasKey(data, "@odata.id") THEN "present" ELSE "absent"
    [] data.t = "arr" ->
         IF \E i \in 1..Len(data.v) :
              data.v[i].t = "str" /\ data.v[i].v = OdataIdChars
         THEN "TypeError" ELSE "absent"
    [] data.t = "str" -> IF IsSubstring(OdataIdChars, data.v) THEN "TypeError" ELSE "absent"
    [] OTHER -> "TypeError"

RECURSIVE WalkDict(_), WalkList(_)
\* the @odata.id values _crawl_related_resources reaches in the dict with
\* the pairs kv, in the order it reaches them
WalkDict(kv) ==
  IF Len(kv) = 0 THEN <<>>
  ELSE LET key == kv[1][1]
           value == kv[1][2]
           here == IF key = "@odata.id" /\ value.t = "str" /\ StartsWith(value.v, RedfishV1)
                   THEN <<value.v>>
                   ELSE IF value.t = "obj" THEN WalkDict(value.v)
                   ELSE IF value.t = "arr" THEN WalkList(value.v)
                   ELSE <<>>
       IN  here \o WalkDict(Tail(kv))

\* the inner loop over a list: only the items that are dicts are entered
WalkList(items) ==
  IF Len(items) = 0 THEN <<>>
  ELSE (IF items[1].t = "obj" THEN WalkDict(items[1].v) ELSE <<>>) \o WalkList(Tail(items))

\* the candidate links of a document, in the order the walk meets them
ExtractLinks(data) == WalkDict(data.v)

\* a scope check on path segments: c is member_url or ends where a segment ends
InScopeSegments(current_odata_id, member_url) ==
  \E i \in 0..(Len(member_url) - Len(current_odata_id)) :
     /\ SubSeq(member_url, i + 1, i + Len(current_odata_id)) = current_odata_id
     /\ (i + Len(current_odata_id) = Len(member_url)
         \/ member_url[i + Len(current_odata_id) + 1] = "/")

\* a scope check that lets every link pass
InScopeAlways(current_odata_id, member_url) == TRUE

\* `current_odata_id in member_url` for a string current_odata_id (line 88)
InScope(current_odata_id, member_url) == IsSubstring(current_odata_id, member_url)

-----------------------------------------------------------------------------
(* The remote services the crawler is run against *)

ServiceRoot == RedfishV1
Chassis == RedfishV1 \o <<"/","C">>
Chassis1 == Chassis \o <<"/","1">>
Chassis1Power == Chassis1 \o <<"/","P">>
Chassis10 == Chassis \o <<"/","1","0">>
Systems1 == RedfishV1 \o <<"/","S","/","1">>
OneChassis == RedfishV1 \o <<"/","1","/","C">>

Self(id) == <<"@odata.id", Str(id)>>

\* a collection with one member, whose document holds only its own identifier
ParentChild ==
  [start_resource |-> Chassis,
   docs |-> (Chassis :> Obj(<<Self(Chassis), <<"Members", Arr(<<Ref(Chassis1)>>)>>>>))
         @@ (Chassis1 :> Ref(Chassis1))]

\* a chassis with a subresource, a numeric sibling and a system that links back
CrossLinked ==
  [start_resource |-> Chassis1,
   docs |-> (Chassis1 :> Obj(<<Self(Chassis1),
                               <<"Power", Ref(Chassis1Power)>>,
                               <<"Links", Obj(<< <<"ComputerSystems", Arr(<<Ref(Systems1)>>)>>,
                                                 <<"Related", Arr(<<Ref(Chassis10)>>)>> >>)>>>>))
         @@ (Chassis1Power :> Ref(Chassis1Power))
         @@ (Chassis10 :> Ref(Chassis10))
         @@ (Systems1 :> Obj(<<Self(Systems1),
                               <<"Links", Obj(<< <<"Chassis", Arr(<<Ref(Chassis1)>>)>> >>)>>>>))]

\* the same without the link back: an acyclic graph with a link out of scope
Acyclic ==
  [start_resource |-> Chassis1,
   docs |-> (Chassis1 :> Obj(<<Self(Chassis1),
                               <<"Power", Ref(Chassis1Power)>>,
                               <<"Links", Obj(<< <<"ComputerSystems", Arr(<<Ref(Systems1)>>)>> >>)>>>>))
         @@ (Chassis1Power :> Ref(Chassis1Power))
         @@ (Systems1 :> Ref(Systems1))]

\* a member that links back to its collection
Cycle ==
  [start_resource |-> Chassis,
   docs |-> (Chassis :> Obj(<<Self(Chassis), <<"Members", Arr(<<Ref(Chassis1)>>)>>>>))
         @@ (Chassis1 :> Obj(<<Self(Chassis1),
                               <<"Links", Obj(<< <<"ContainedBy", Ref(Chassis)>> >>)>>>>))]

\* a resource linked from two documents
Shared ==
  [start_resource |-> Chassis,
   docs |-> (Chassis :> Obj(<<Self(Chassis),
                              <<"Members", Arr(<<Ref(Chassis1), Ref(Chassis1Power)>>)>>>>))
         @@ (Chassis1 :> Obj(<<Self(Chassis1), <<"Power", Ref(Chassis1Power)>>>>))
         @@ (Chassis1Power :> Ref(Chassis1Power))]

\* the service root with two resources whose names differ in a leading "1/"
RootWalk ==
  [start_resource |-> ServiceRoot,
   docs |-> (ServiceRoot :> Obj(<<Self(ServiceRoot),
                                  <<"Chassis", Ref(Chassis)>>,
                                  <<"Oem", Ref(OneChassis)>>>>))
         @@ (Chassis :> Ref(Chassis))
         @@ (OneChassis :> Ref(OneChassis))]

\* a service that writes its own identifier as an absolute URL
AbsoluteId ==
  [start_resource |-> Chassis,
   docs |-> (Chassis :> Obj(<<Self(Origin \o Chassis),
                              <<"Members", Arr(<<Ref(Chassis1), Ref(Systems1)>>)>>>>))
         @@ (Chassis1 :> Ref(Chassis1))
         @@ (Systems1 :> Ref(Systems1))]

\* a document whose own @odata.id is not a string
NumericId ==
  [start_resource |-> Chassis,
   docs |-> (Chassis :> Obj(<< <<"@odata.id", Num>>,
                               <<"Members", Arr(<<Ref(Chassis1)>>)>>>>))
         @@ (Chassis1 :> Ref(Chassis1))]

\* a document without an @odata.id of its own
NoId ==
  [start_resource |-> Chassis,
   docs |-> (Chassis :> Obj(<< <<"Members", Arr(<<Ref(Chassis1)>>)>> >>))
         @@ (Chassis1 :> Ref(Chassis1))]

\* members whose documents are a list and a number
NonObjects ==
  [start_resource |-> Chassis,
   docs |-> (Chassis :> Obj(<<Self(Chassis),
                              <<"Members", Arr(<<Ref(Chassis1), Ref(Chassis10)>>)>>>>))
         @@ (Chassis1 :> Arr(<<Ref(Chassis1Power)>>))
         @@ (Chassis10 :> Num)
         @@ (Chassis1Power :> Ref(Chassis1Power))]

\* links inside a list of lists, and inside a sub-object with its own identifier
Nested ==
  [start_resource |-> Chassis,
   docs |-> (Chassis :> Obj(<<Self(Chassis),
                              <<"Groups", Arr(<<Arr(<<Ref(Chassis10)>>)>>)>>,
                              <<"Sub", Obj(<<Self(Chassis1),
                                             <<"Power", Ref(Chassis1Power)>>,
                                             <<"System", Ref(Systems1)>>>>)>>>>))
         @@ (Chassis1 :> Ref(Chassis1))
         @@ (Chassis10 :> Ref(Chassis10))
         @@ (Chassis1Power :> Ref(Chassis1Power))
         @@ (Systems1 :> Ref(Systems1))]

\* the service root with a child, and a sub-object that carries the child's
\* identifier and links a resource outside the child's subtree
ScopedRoot ==
  [start_resource |-> ServiceRoot,
   docs |-> (ServiceRoot :> Obj(<<Self(ServiceRoot),
                                  <<"First", Ref(Chassis1)>>,
                                  <<"Sub", Obj(<<Self(Chassis1),
                                                 <<"System", Ref(Systems1)>>>>)>>>>))
         @@ (Chassis1 :> Obj(<<Self(Chassis1), <<"Power", Ref(Chassis1Power)>>>>))
         @@ (Chassis1Power :> Ref(Chassis1Power))
         @@ (Systems1 :> Ref(Systems1))]

\* a chassis whose only link is to the chassis numbered 10
NumericSibling ==
  [start_resource |-> Chassis1,
   docs |-> (Chassis1 :> Obj(<<Self(Chassis1), <<"Related", Ref(Chassis10)>>>>))
         @@ (Chassis10 :> Ref(Chassis10))]

Services == <<NumericSibling, ParentChild, CrossLinked, Acyclic, Cycle, Shared, RootWalk,
              AbsoluteId, NumericId, NoId, NonObjects, Nested, ScopedRoot>>

start_resource == Services[service].start_resource

Docs == Services[service].docs

-----------------------------------------------------------------------------
(* The crawler *)

\* one call of _crawl_resource and of the handlers it runs; pc is the next step
Frame(resource_url) ==
  [pc |-> "get", url |-> urljoin(resource_url), body |-> "none", data |-> NoData,
   links |-> <<>>, i |-> 1, current_odata_id |-> NoData]

Top == stack[Len(stack)]

SetTop(f) == [stack EXCEPT ![Len(stack)] = f]

Running == status = "running" /\ Len(stack) > 0

\* the innermost call returns; crawl() returns with the outermost one
Return ==
  /\ stack' = SubSeq(stack, 1, Len(stack) - 1)
  /\ status' = IF Len(stack) = 1 THEN "done" ELSE status

\* an exception no handler catches unwinds every call and leaves crawl()
Raise(e) ==
  /\ stack' = <<>>
  /\ status' = "raised"
  /\ exc' = e

Init ==
  /\ service \in 1..Len(Services)
  /\ run = 0
  /\ status = "idle"
  /\ exc = "none"
  /\ stack = <<>>
  /\ visited = {}
  /\ fetchLog = <<>>
  /\ saveLog = <<>>
  /\ files = <<>>

\* a crawl() that goes on with the visited set of the crawl() before it
CrawlSharedVisited ==
  /\ status # "running"
  /\ run < MaxRuns
  /\ run' = run + 1
  /\ status' = "running"
  /\ exc' = "none"
  /\ stack' = <<Frame(start_resource)>>
  /\ fetchLog' = <<>>
  /\ saveLog' = <<>>
  /\ UNCHANGED <<service, visited, files>>

\* crawl(): _crawl_resource(self.start_resource) with visited=None, which
\* stands for no URL visited (the set is made at the first visited.add)
Crawl ==
  /\ status # "running"
  /\ run < MaxRuns
  /\ run' = run + 1
  /\ status' = "running"
  /\ exc' = "none"
  /\ stack' = <<Frame(start_resource)>>
  /\ visited' = {}
  /\ fetchLog' = <<>>
  /\ saveLog' = <<>>
  /\ UNCHANGED <<service, files>>

CanGet == Running /\ Top.pc = "get" /\ Len(fetchLog) < MaxFetches

\* session.get answers 200; the body is the JSON document or not JSON
Get200 ==
  /\ CanGet
  /\ UrlPath(Top.url) \in DOMAIN Docs
  /\ \E body \in {"json", "garbage"} :
       /\ fetchLog' = Append(fetchLog, [url |-> Top.url,
                                        outcome |-> IF body = "json" THEN "ok" ELSE "unparsable"])
       /\ stack' = SetTop([Top EXCEPT !.pc = "json", !.body = body])
  /\ UNCHANGED <<service, run, status, exc, visited, saveLog, files>>

\* a failed response that is raised as an error instead of being logged
GetNon200Raises ==
  /\ CanGet
  /\ fetchLog' = Append(fetchLog, [url |-> Top.url, outcome |-> "non200"])
  /\ Raise("TypeError")
  /\ UNCHANGED <<service, run, visited, saveLog, files>>

\* session.get answers another status: _handle_failed_response, then return
GetNon200 ==
  /\ CanGet
  /\ fetchLog' = Append(fetchLog, [url |-> Top.url, outcome |-> "non200"])
  /\ Return
  /\ UNCHANGED <<service, run, exc, visited, saveLog, files>>

\* a transport failure after which the URL counts as visited
GetExceptionMarksVisited ==
  /\ CanGet
  /\ fetchLog' = Append(fetchLog, [url |-> Top.url, outcome |-> "exception"])
  /\ visited' = visited \cup {Top.url}
  /\ Return
  /\ UNCHANGED <<service, run, exc, saveLog, files>>

\* session.get raises RequestException: _handle_request_exception, then return
GetException ==
  /\ CanGet
  /\ fetchLog' = Append(fetchLog, [url |-> Top.url, outcome |-> "exception"])
  /\ Return
  /\ UNCHANGED <<service, run, exc, visited, saveLog, files>>

\* a JSONDecodeError that no handler catches
JsonDecodeErrorUncaught ==
  /\ Running /\ Top.pc = "json" /\ Top.body = "garbage"
  /\ Raise("JSONDecodeError")
  /\ UNCHANGED <<service, run, visited, fetchLog, saveLog, files>>

\* response.json() raises JSONDecodeError: _handle_json_decode_error, return
JsonDecodeError ==
  /\ Running /\ Top.pc = "json" /\ Top.body = "garbage"
  /\ Return
  /\ UNCHANGED <<service, run, exc, visited, fetchLog, saveLog, files>>

\* a handler that marks the URL visited before it hands the document over
SaveDataMarksVisited ==
  /\ Running /\ Top.pc = "json" /\ Top.body = "json"
  /\ LET data == Docs[UrlPath(Top.url)]
         output_file == StoragePath(Top.url)
     IN  /\ visited' = visited \cup {Top.url}
         /\ files' = (output_file :> data) @@ files
         /\ saveLog' = Append(saveLog, Top.url)
         /\ stack' = SetTop([Top EXCEPT !.pc = "add", !.data = data])
  /\ UNCHANGED <<service, run, status, exc, fetchLog>>

\* response.json() and _save_data: the document is written to its index.json
SaveData ==
  /\ Running /\ Top.pc = "json" /\ Top.body = "json"
  /\ LET data == Docs[UrlPath(Top.url)]
         output_file == StoragePath(Top.url)
     IN  /\ files' = (output_file :> data) @@ files
         /\ saveLog' = Append(saveLog, Top.url)
         /\ stack' = SetTop([Top EXCEPT !.pc = "add", !.data = data])
  /\ UNCHANGED <<service, run, status, exc, visited, fetchLog>>

\* os.makedirs or open raises OSError in _save_data: nothing catches it
SaveDataRaises ==
  /\ Running /\ Top.pc = "json" /\ Top.body = "json"
  /\ Raise("OSError")
  /\ UNCHANGED <<service, run, visited, fetchLog, saveLog, files>>

\* visited.add(full_url) (lines 66-68)
MarkVisitedNever(v, full_url) == v

MarkVisited(v, full_url) == v \cup {full_url}

VisitedAdd ==
  /\ Running /\ Top.pc = "add"
  /\ visited' = MarkVisited(visited, Top.url)
  /\ stack' = SetTop([Top EXCEPT !.pc = "root"])
  /\ UNCHANGED <<service, run, status, exc, fetchLog, saveLog, files>>

\* a handler that walks a document without an @odata.id of its own, with an
\* empty current_odata_id
NoOdataIdWalks ==
  /\ Running /\ Top.pc = "root"
  /\ RootCheck(Top.data) = "absent"
  /\ stack' = SetTop([Top EXCEPT !.pc = "walk",
                                 !.links = IF Top.data.t = "obj" THEN ExtractLinks(Top.data)
                                           ELSE <<>>,
                                 !.i = 1,
                                 !.current_odata_id = Str(<<>>)])
  /\ UNCHANGED <<service, run, status, exc, visited, fetchLog, saveLog, files>>

\* the document has no @odata.id of its own: nothing is followed, return
NoOdataId ==
  /\ Running /\ Top.pc = "root"
  /\ RootCheck(Top.data) = "absent"
  /\ Return
  /\ UNCHANGED <<service, run, exc, visited, fetchLog, saveLog, files>>

\* `'@odata.id' in data` or `data['@odata.id']` raises TypeError
OdataIdTypeError ==
  /\ Running /\ Top.pc = "root"
  /\ RootCheck(Top.data) = "TypeError"
  /\ Raise("TypeError")
  /\ UNCHANGED <<service, run, visited, fetchLog, saveLog, files>>

\* a walk whose current_odata_id is overwritten by every @odata.id it meets,
\* so that the last one met is the one in force
CrawlRelatedResourcesLastId ==
  /\ Running /\ Top.pc = "root"
  /\ RootCheck(Top.data) = "present"
  /\ LET links == ExtractLinks(Top.data)
     IN  stack' = SetTop([Top EXCEPT !.pc = "walk",
                                     !.links = links,
                                     !.i = 1,
                                     !.current_odata_id =
                                        IF Len(links) > 0 THEN Str(links[Len(links)])
                                        ELSE GetKey(Top.data, "@odata.id")])
  /\ UNCHANGED <<service, run, status, exc, visited, fetchLog, saveLog, files>>

\* current_odata_id is captured and _crawl_related_resources starts its walk
CrawlRelatedResources ==
  /\ Running /\ Top.pc = "root"
  /\ RootCheck(Top.data) = "present"
  /\ stack' = SetTop([Top EXCEPT !.pc = "walk",
                                 !.links = ExtractLinks(Top.data),
                                 !.i = 1,
                                 !.current_odata_id = GetKey(Top.data, "@odata.id")])
  /\ UNCHANGED <<service, run, status, exc, visited, fetchLog, saveLog, files>>

AtLink == Running /\ Top.pc = "walk" /\ Top.i <= Len(Top.links)

member_url == urljoin(Top.links[Top.i])

\* `member_url not in visited` (line 88)
NotVisitedAlways(url, v) == TRUE

NotVisited(url, v) == url \notin v

\* the link is visited or out of scope: the walk goes on to the next one
SkipLink ==
  /\ AtLink
  /\ \/ ~NotVisited(member_url, visited)
     \/ /\ Top.current_odata_id.t = "str"
        /\ ~InScope(Top.current_odata_id.v, member_url)
  /\ stack' = SetTop([Top EXCEPT !.i = @ + 1])
  /\ UNCHANGED <<service, run, status, exc, visited, fetchLog, saveLog, files>>

\* `current_odata_id in member_url` with a current_odata_id that is no string
ScopeTypeError ==
  /\ AtLink
  /\ NotVisited(member_url, visited)
  /\ Top.current_odata_id.t # "str"
  /\ Raise("TypeError")
  /\ UNCHANGED <<service, run, visited, fetchLog, saveLog, files>>

\* the link is new and in scope: _crawl_resource(member_url, visited)
FollowLink ==
  /\ AtLink
  /\ NotVisited(member_url, visited)
  /\ Top.current_odata_id.t = "str"
  /\ InScope(Top.current_odata_id.v, member_url)
  /\ stack' = Append(SetTop([Top EXCEPT !.i = @ + 1]), Frame(member_url))
  /\ UNCHANGED <<service, run, status, exc, visited, fetchLog, saveLog, files>>

\* the walk is over: _crawl_related_resources and _crawl_resource return
WalkReturn ==
  /\ Running /\ Top.pc = "walk" /\ Top.i > Len(Top.links)
  /\ Return
  /\ UNCHANGED <<service, run, exc, visited, fetchLog, saveLog, files>>

\* the steps of a crawl() that is under way
Step ==
  \/ GetNon200
  \/ GetException
  \/ Get200
  \/ JsonDecodeError
  \/ SaveDataRaises
  \/ SaveData
  \/ VisitedAdd
  \/ NoOdataId
  \/ OdataIdTypeError
  \/ CrawlRelatedResources
  \/ WalkReturn
  \/ SkipLink
  \/ ScopeTypeError
  \/ FollowLink

Next ==
  \/ Crawl
  \/ Get200
  \/ GetNon200
  \/ GetException
  \/ JsonDecodeError
  \/ SaveData
  \/ SaveDataRaises
  \/ VisitedAdd
  \/ NoOdataId
  \/ OdataIdTypeError
  \/ CrawlRelatedResources
  \/ SkipLink
  \/ ScopeTypeError
  \/ FollowLink
  \/ WalkReturn

Spec == Init /\ [][Next]_vars

\* the interpreter runs a crawl() that was called to its end
FairSpec == Spec /\ WF_vars(Step)

-----------------------------------------------------------------------------
(* What a run has done *)

TypeOK ==
  /\ service \in 1..Len(Services)
  /\ run \in 0..MaxRuns
  /\ status \in {"idle", "running", "done", "raised"}
  /\ exc \in {"none", "OSError", "TypeError"}
  /\ (status = "running") = (Len(stack) > 0)
  /\ Len(fetchLog) < MaxFetches

Range(s) == {s[i] : i \in 1..Len(s)}

\* the URLs session.get was called with in this crawl(), and how often
Fetched == {fetchLog[i].url : i \in 1..Len(fetchLog)}

FetchCount(u) == Cardinality({i \in 1..Len(fetchLog) : fetchLog[i].url = u})

\* the URLs _save_data wrote a document for in this crawl(), and how often
Saved == Range(saveLog)

SaveCount(u) == Cardinality({i \in 1..Len(saveLog) : saveLog[i] = u})

\* every fetch so far answered 200 with a JSON body
AllOk == \A i \in 1..Len(fetchLog) : fetchLog[i].outcome = "ok"

FailedAt(i) == fetchLog[i].outcome \in {"non200", "exception"}

\* the URL of the resource with the identifier id
Url(id) == Origin \o id

RECURSIVE RefsIn(_)
\* every string that is the value of an @odata.id key anywhere in a JSON value
RefsIn(x) ==
  IF x.t = "obj"
  THEN UNION {(IF x.v[i][1] = "@odata.id" /\ x.v[i][2].t = "str" THEN {x.v[i][2].v} ELSE {})
                \cup RefsIn(x.v[i][2]) : i \in 1..Len(x.v)}
  ELSE IF x.t = "arr" THEN UNION {RefsIn(x.v[i]) : i \in 1..Len(x.v)}
  ELSE {}

\* the link graph of the service: the identifiers the document of id names
LinksOf(id) ==
  IF id \in DOMAIN Docs THEN {l \in RefsIn(Docs[id]) : StartsWith(l, RedfishV1)} ELSE {}

RECURSIVE LinkClosure(_)
\* the identifiers reachable from those of S in the link graph
LinkClosure(S) ==
  LET N == S \cup UNION {LinksOf(id) : id \in S}
  IN  IF N = S THEN S ELSE LinkClosure(N)

\* the identifiers reachable from the start resource in the link graph
LinkReachable == LinkClosure({start_resource})

\* no identifier is reachable from itself other than by its link to itself
AcyclicGraph ==
  \A id \in LinkReachable : id \notin LinkClosure(LinksOf(id) \ {id})

\* the document of id is a dict whose own @odata.id is the string c
RootIdIs(id, c) ==
  /\ id \in DOMAIN Docs
  /\ Docs[id].t = "obj"
  /\ \E i \in 1..Len(Docs[id].v) :
       /\ Docs[id].v[i][1] = "@odata.id"
       /\ Docs[id].v[i][2].t = "str"
       /\ Docs[id].v[i][2].v = c

\* the links of the document of id that the walk reaches and that hold the
\* document's own identifier as a substring of their URL
FollowedFrom(id) ==
  IF id \in DOMAIN Docs /\ Docs[id].t = "obj"
  THEN {l \in Range(ExtractLinks(Docs[id])) :
          \E c \in {Docs[id].v[i][2].v : i \in {j \in 1..Len(Docs[id].v) :
                       Docs[id].v[j][1] = "@odata.id" /\ Docs[id].v[j][2].t = "str"}} :
             IsSubstring(c, Url(l))}
  ELSE {}

RECURSIVE ScopeClosure(_)
ScopeClosure(S) ==
  LET N == S \cup UNION {FollowedFrom(id) : id \in S}
  IN  IF N = S THEN S ELSE ScopeClosure(N)

\* the identifiers reachable from the start resource by such links
ScopeReachable == ScopeClosure({start_resource})

\* A = start resource and B link to each other
CyclePair(B) ==
  /\ B # start_resource
  /\ B \in LinksOf(start_resource)
  /\ start_resource \in LinksOf(B)

-----------------------------------------------------------------------------
(* Claims *)

\* C1: in one crawl() no URL is handed to session.get more than once,
\* whatever the outcome of its fetch.
C1_Deduplication ==
  \A u \in Fetched : FetchCount(u) <= 1

\* C2: under fair scheduling every crawl() that was started ends: it leaves
\* the state "running" with no call left on the stack, cycles or not.
C2_Termination ==
  (status = "running") ~> (status # "running" /\ stack = <<>>)

C2_Witness ==
  /\ status = "done"
  /\ \E B \in DOMAIN Docs : CyclePair(B) /\ Url(B) \in Saved
  /\ Len(fetchLog) >= 2

\* C3 as stated: when A links to B and B links back to A and all fetches
\* succeed, A and B have each been saved exactly once when the crawl is done.
C3_CycleSavedOnce ==
  (status = "done" /\ AllOk) =>
     \A B \in DOMAIN Docs :
        CyclePair(B) => SaveCount(Url(start_resource)) = 1 /\ SaveCount(Url(B)) = 1

\* C3 amended: when A links to B and B links back to A and all fetches
\* succeed, neither is ever saved twice; when the crawl is done A has been
\* saved exactly once, and B exactly once if the walk of A's document reaches
\* the link to B and A's own identifier is a substring of B's URL.
C3_CycleSavedOnceInScope ==
  AllOk =>
     \A B \in DOMAIN Docs :
        CyclePair(B) =>
          /\ SaveCount(Url(start_resource)) <= 1
          /\ SaveCount(Url(B)) <= 1
          /\ status = "done" =>
               /\ SaveCount(Url(start_resource)) = 1
               /\ B \in FollowedFrom(start_resource) => SaveCount(Url(B)) = 1

C3_Witness ==
  /\ status = "done"
  /\ AllOk
  /\ \E B \in DOMAIN Docs :
       /\ CyclePair(B)
       /\ B \in FollowedFrom(start_resource)
       /\ saveLog = <<Url(start_resource), Url(B)>>

\* C4 as stated: on an acyclic link graph with N identifiers reachable from
\* the start resource and all fetches succeeding, a finished crawl has made
\* exactly N fetches.
C4_FetchCountAcyclic ==
  (status = "done" /\ AllOk /\ AcyclicGraph) =>
     Len(fetchLog) = Cardinality(LinkReachable)

\* C4 amended: on an acyclic link graph with all fetches succeeding no URL is
\* fetched twice, and a finished crawl has fetched exactly the identifiers
\* reachable from the start resource by links that the walk reaches and that
\* are in scope of the document holding them; these are at most N.
C4_FetchCountInScope ==
  (AllOk /\ AcyclicGraph) =>
     /\ \A u \in Fetched : FetchCount(u) = 1
     /\ status = "done" =>
          /\ Fetched = {Url(id) : id \in ScopeReachable}
          /\ Len(fetchLog) = Cardinality(ScopeReachable)
          /\ Len(fetchLog) <= Cardinality(LinkReachable)

C4_Witness ==
  /\ status = "done"
  /\ AllOk
  /\ AcyclicGraph
  /\ Len(fetchLog) = 2
  /\ Cardinality(LinkReachable) = 3

\* the walk is at a link that is not yet visited
AtNewLink == AtLink /\ Url(Top.links[Top.i]) \notin visited

\* the step calls _crawl_resource for the link the walk is at
Follows == Len(stack') = Len(stack) + 1 /\ stack'[Len(stack')].url = Url(Top.links[Top.i])

\* C5 as stated: a link L that is not yet visited is followed if and only if
\* the document's own identifier C is a substring of the identifier L itself.
C5_ScopeRule ==
  [][AtNewLink =>
       (Follows <=> /\ Top.current_odata_id.t = "str"
                    /\ IsSubstring(Top.current_odata_id.v, Top.links[Top.i]))]_vars

\* C5 amended: a link L that is not yet visited is followed if and only if
\* the document's own identifier C is a string and a substring of the URL of
\* L, https://<host> followed by L.
C5_ScopeRuleUrl ==
  [][AtNewLink =>
       (Follows <=> /\ Top.current_odata_id.t = "str"
                    /\ IsSubstring(Top.current_odata_id.v, Url(Top.links[Top.i])))]_vars

C5_Witness ==
  /\ Running
  /\ Top.pc = "walk"
  /\ Top.current_odata_id.t = "str"
  /\ Top.current_odata_id.v = Chassis1
  /\ Top.i > Len(Top.links)
  /\ {Chassis1Power, Chassis10, Systems1} \subseteq Range(Top.links)
  /\ {Url(Chassis1Power), Url(Chassis10)} \subseteq Fetched
  /\ Url(Systems1) \notin Fetched

\* C6: a fetch that answers another status than 200 or raises a transport
\* exception saves nothing and marks nothing visited, raises nothing, and
\* returns to the walk of the enclosing document, whose remaining links are
\* still to be processed; a crawl whose start resource fails is done.
C6_TransportFailureRecovered ==
  [][(/\ Len(fetchLog') = Len(fetchLog) + 1
      /\ fetchLog'[Len(fetchLog')].outcome \in {"non200", "exception"})
     => /\ saveLog' = saveLog
        /\ files' = files
        /\ visited' = visited
        /\ exc' = "none"
        /\ stack' = SubSeq(stack, 1, Len(stack) - 1)
        /\ status' = IF Len(stack) = 1 THEN "done" ELSE "running"]_vars

C6_Witness ==
  /\ status = "done"
  /\ \E i, j \in 1..Len(fetchLog) :
       /\ i < j
       /\ FailedAt(i)
       /\ fetchLog[i].url \notin Saved
       /\ fetchLog[j].outcome = "ok"
       /\ fetchLog[j].url \in Saved

\* C7: an error the sink raises while writing a document does not propagate
\* out of crawl().
C7_PersistenceNonFatal ==
  exc # "OSError"

\* C8: two distinct identifiers saved in a crawl are written to distinct
\* index.json paths.
C8_StorageInjective ==
  \A u1, u2 \in Saved : u1 # u2 => StoragePath(u1) # StoragePath(u2)

\* C9: within one crawl() the visited set only grows, and it holds only URLs
\* fetched successfully in this crawl(): nothing visited in an earlier
\* crawl() on the same object counts as visited.
C9_VisitedLifecycle ==
  /\ [][run' = run => visited \subseteq visited']_vars
  /\ [](visited \subseteq {fetchLog[i].url : i \in {j \in 1..Len(fetchLog) :
                                                      fetchLog[j].outcome = "ok"}})

C9_Witness ==
  /\ run = 2
  /\ Running
  /\ Len(stack) = 2
  /\ Top.pc = "json"
  /\ Top.url \notin Saved
  /\ StoragePath(Top.url) \in DOMAIN files
  /\ visited # {}

\* the start document has the start resource P as its own identifier and its
\* only other link is to child, whose identifier contains P and whose
\* document holds no link but its own identifier
ParentChildScenario(child) ==
  /\ RootIdIs(start_resource, start_resource)
  /\ child \in DOMAIN Docs
  /\ child # start_resource
  /\ Range(ExtractLinks(Docs[start_resource])) \ {start_resource} = {child}
  /\ IsSubstring(start_resource, child)
  /\ RefsIn(Docs[child]) \subseteq {child}

IsPrefix(s, t) == Len(s) <= Len(t) /\ s = SubSeq(t, 1, Len(s))

FetchedUrls == [i \in 1..Len(fetchLog) |-> fetchLog[i].url]

\* C10: in the parent/child scenario with all fetches succeeding the crawl
\* fetches P, then the child, and nothing else, saves both in that order,
\* and a finished crawl has made exactly these two fetches and two saves.
C10_ParentChildWalk ==
  \A child \in DOMAIN Docs :
     (ParentChildScenario(child) /\ AllOk) =>
        LET both == <<Url(start_resource), Url(child)>>
        IN  /\ IsPrefix(FetchedUrls, both)
            /\ IsPrefix(saveLog, both)
            /\ status = "done" => FetchedUrls = both /\ saveLog = both

C10_Witness ==
  /\ status = "done"
  /\ AllOk
  /\ \E child \in DOMAIN Docs :
       /\ ParentChildScenario(child)
       /\ saveLog = <<Url(start_resource), Url(child)>>

\* C11: once a fetch of a URL has answered another status than 200 or raised
\* a transport exception, the URL is not fetched again in the same crawl().
C11_FetchFailedTerminal ==
  \A i, j \in 1..Len(fetchLog) :
     (i < j /\ FailedAt(i)) => fetchLog[j].url # fetchLog[i].url

\* the step calls session.get
Fetches == Len(fetchLog') = Len(fetchLog) + 1

\* C12: every fetch after the one of the start resource is for a URL that is
\* not in the visited set when session.get is called, and no URL is saved
\* more than once in one crawl().
C12_VisitedCheckBeforeFetch ==
  /\ [][(Fetches /\ Len(fetchLog) >= 1) => fetchLog'[Len(fetchLog')].url \notin visited]_vars
  /\ [](\A u \in Saved : SaveCount(u) = 1)

\* the document of a child links back to the start resource, which is visited
\* and was not fetched again
C12_Witness ==
  /\ Running
  /\ Len(stack) = 2
  /\ Top.pc = "walk"
  /\ Top.i > Len(Top.links)
  /\ start_resource \in Range(Top.links)
  /\ Url(start_resource) \in visited
  /\ FetchCount(Url(start_resource)) = 1
  /\ Len(fetchLog) = 2

\* the step calls _save_data, adds to visited, sets current_odata_id, or calls
\* _crawl_resource for a link
Saves == Len(saveLog') = Len(saveLog) + 1

Marks == run' = run /\ visited' # visited

Captures ==
  /\ Running
  /\ Len(stack') = Len(stack)
  /\ Top.current_odata_id.t = "none"
  /\ stack'[Len(stack')].current_odata_id.t # "none"

Pushes == Running /\ Len(stack') = Len(stack) + 1

\* C13 as stated: the URL of a document is already in the visited set when
\* the document is handed to _save_data.
C13_VisitedBeforeSink ==
  [][Saves => Top.url \in visited]_vars

\* C13 amended: the document is handed to _save_data first, while its URL is
\* not in the visited set; then the URL is marked visited, before the
\* document's own identifier is captured; then the identifier is captured;
\* and a link is followed only from a document that is saved, visited and has
\* its identifier captured.
C13_SinkBeforeVisited ==
  /\ [][Saves => /\ saveLog'[Len(saveLog')] = Top.url
                 /\ Top.url \notin visited
                 /\ Top.url \notin visited']_vars
  /\ [][Marks => /\ visited' = visited \cup {Top.url}
                 /\ Top.url \in Saved
                 /\ Top.current_odata_id.t = "none"
                 /\ stack'[Len(stack')].current_odata_id.t = "none"]_vars
  /\ [][Captures => Top.url \in Saved /\ Top.url \in visited]_vars
  /\ [][Pushes => /\ Top.url \in Saved
                  /\ Top.url \in visited
                  /\ Top.current_odata_id.t # "none"]_vars

\* the document of a linked resource is saved and its URL not yet visited
C13_Witness ==
  /\ Running
  /\ Len(stack) = 2
  /\ Top.pc = "add"
  /\ saveLog[Len(saveLog)] = Top.url
  /\ Top.url \notin visited
  /\ stack[1].url \in visited

\* the @odata.id strings beginning with /redfish/v1 anywhere in the document
\* served for the URL u
Candidates(u) ==
  {l \in RefsIn(Docs[UrlPath(u)]) : StartsWith(l, RedfishV1)}

\* the string that is the own @odata.id of the document served for u, if any
OwnIds(u) == {r \in RefsIn(Docs[UrlPath(u)]) : RootIdIs(UrlPath(u), r)}

\* C14: when a crawl with all fetches succeeding is done, for every saved
\* document with an own identifier, every @odata.id string beginning with
\* /redfish/v1 at any depth of the document, through objects and arrays,
\* whose URL holds the document's identifier has been fetched.
C14_LinksAtAnyDepth ==
  (status = "done" /\ AllOk) =>
     \A u \in Saved : \A r \in OwnIds(u) : \A l \in Candidates(u) :
        IsSubstring(r, Url(l)) => Url(l) \in Fetched

\* the last response was a 200 whose body is not JSON and is being handled
ParseFailing ==
  /\ Running
  /\ Top.pc = "json"
  /\ fetchLog[Len(fetchLog)].outcome = "unparsable"

\* C15: the handling of a 200 response whose body is not JSON saves nothing
\* and marks nothing visited, raises nothing, and returns to the walk of the
\* enclosing document (a crawl whose start resource does not parse is done);
\* a URL none of whose fetches parsed is neither saved nor visited.
C15_ParseFailureRecovered ==
  /\ [][ParseFailing => /\ saveLog' = saveLog
                        /\ files' = files
                        /\ visited' = visited
                        /\ exc' = "none"
                        /\ stack' = SubSeq(stack, 1, Len(stack) - 1)
                        /\ status' = IF Len(stack) = 1 THEN "done" ELSE "running"]_vars
  /\ [](\A i \in 1..Len(fetchLog) :
          (/\ fetchLog[i].outcome = "unparsable"
           /\ \A j \in 1..Len(fetchLog) :
                 fetchLog[j].url = fetchLog[i].url => fetchLog[j].outcome # "ok")
          => fetchLog[i].url \notin visited \cup Saved)

\* a crawl is done in which a body did not parse and a link processed after
\* it was fetched and saved
C15_Witness ==
  /\ status = "done"
  /\ \E i, j \in 1..Len(fetchLog) :
       /\ i < j
       /\ fetchLog[i].outcome = "unparsable"
       /\ fetchLog[i].url \notin Saved
       /\ fetchLog[j].url # fetchLog[i].url
       /\ fetchLog[j].outcome = "ok"
       /\ fetchLog[j].url \in Saved

\* C16: no document that parses, whether it is an object, an array or a
\* scalar, and whatever the type of its own @odata.id, makes crawl() end in
\* a TypeError.
C16_AnyJsonValueAccepted ==
  ~(status = "raised" /\ exc = "TypeError")

\* the own @odata.id of the document that the call f is walking
RootIdOf(f) == GetKey(Docs[UrlPath(f.url)], "@odata.id")

\* C17: at every moment the current_odata_id of every walk under way, the
\* innermost and the ones waiting for a child to return, is the own @odata.id
\* of the document being walked; and a link not yet visited is followed if
\* and only if that identifier is a substring of the link's URL, wherever in
\* the document the link is nested.
C17_ScopeFixedPerResource ==
  /\ [](\A k \in 1..Len(stack) :
          stack[k].pc = "walk" =>
             /\ stack[k].current_odata_id.t = RootIdOf(stack[k]).t
             /\ stack[k].current_odata_id.t = "str" =>
                   stack[k].current_odata_id.v = RootIdOf(stack[k]).v)
  /\ [][(AtNewLink /\ RootIdOf(Top).t = "str") =>
          (Follows <=> IsSubstring(RootIdOf(Top).v, Url(Top.links[Top.i])))]_vars

\* the walk of the service root is over: its child was expanded, and after
\* it the link inside the sub-object with the child's identifier, which the
\* root's identifier admits and the child's does not, was followed
C17_Witness ==
  /\ Running
  /\ Len(stack) = 1
  /\ Top.pc = "walk"
  /\ Top.i > Len(Top.links)
  /\ Top.current_odata_id.t = "str"
  /\ Top.current_odata_id.v = ServiceRoot
  /\ \E i, j \in 1..Len(saveLog) :
       /\ i < j
       /\ saveLog[i] = Url(Chassis1)
       /\ saveLog[j] = Url(Systems1)
  /\ RootIdIs(Chassis1, Chassis1)
  /\ Top.links[Len(Top.links)] = Systems1
  /\ Top.links[Len(Top.links) - 1] = Chassis1
  /\ ~IsSubstring(Chassis1, Url(Systems1))

\* the outcome of the latest session.get of u in this crawl()
LastOutcome(u) ==
  LET last == CHOOSE i \in 1..Len(fetchLog) :
                 /\ fetchLog[i].url = u
                 /\ \A j \in (i + 1)..Len(fetchLog) : fetchLog[j].url # u
  IN  fetchLog[last].outcome

\* C18: every URL in the visited set was fetched in this crawl(), its latest
\* fetch answered 200 with a JSON body, and its document has been handed to
\* _save_data and written to its index.json; a URL whose fetch failed or did
\* not parse is not in the visited set.
C18_VisitedImpliesSaved ==
  /\ \A u \in visited :
       /\ u \in Fetched
       /\ LastOutcome(u) = "ok"
       /\ u \in Saved
       /\ StoragePath(u) \in DOMAIN files
  /\ \A u \in Fetched : LastOutcome(u) \in {"non200", "exception", "unparsable"} => u \notin visited

\* two documents are saved and visited, and a resource whose fetch raised a
\* transport exception and one whose body did not parse are not
C18_Witness ==
  /\ Cardinality(visited) >= 2
  /\ \E u, w \in Fetched \ visited :
       /\ LastOutcome(u) = "exception"
       /\ LastOutcome(w) = "unparsable"

\* every document the service serves is a dict whose own @odata.id is the
\* path it is served at
ConsistentIds == \A id \in DOMAIN Docs : RootIdIs(id, id)

\* C19: on a service whose every document has the path it is served at as
\* its own @odata.id, every URL handed to session.get holds start_resource
\* as a substring.
C19_SubtreeConfinement ==
  ConsistentIds => \A u \in Fetched : IsSubstring(start_resource, u)

\* a finished crawl of such a service that fetched three resources and left
\* out a linked resource whose URL does not hold start_resource
C19_Witness ==
  /\ status = "done"
  /\ ConsistentIds
  /\ Cardinality(Fetched) >= 3
  /\ \E l \in LinksOf(start_resource) :
       /\ ~IsSubstring(start_resource, Url(l))
       /\ Url(l) \notin Fetched

\* the document served for the URL u is a dict without the key @odata.id
NoRootId(u) ==
  /\ UrlPath(u) \in DOMAIN Docs
  /\ Docs[UrlPath(u)].t = "obj"
  /\ \A i \in 1..Len(Docs[UrlPath(u)].v) : Docs[UrlPath(u)].v[i][1] # "@odata.id"

\* C20: a JSON object without an @odata.id at its root is saved and marked
\* visited, and then its handling returns without a fetch: no call of
\* _crawl_resource is ever made from it, and a finished crawl that started
\* at such a document has fetched and saved the start resource only.
C20_NoRootIdIsLeaf ==
  /\ [][(Running /\ Top.pc = "root" /\ NoRootId(Top.url)) =>
          /\ Top.url \in Saved
          /\ Top.url \in visited
          /\ stack' = SubSeq(stack, 1, Len(stack) - 1)
          /\ fetchLog' = fetchLog
          /\ exc' = "none"]_vars
  /\ [](\A k \in 1..(Len(stack) - 1) : ~NoRootId(stack[k].url))
  /\ []((status = "done" /\ AllOk /\ NoRootId(Url(start_resource))) =>
          /\ FetchedUrls = <<Url(start_resource)>>
          /\ saveLog = <<Url(start_resource)>>
          /\ visited = {Url(start_resource)})

\* a finished crawl whose start document has no @odata.id of its own and
\* holds a link to another resource of the service
C20_Witness ==
  /\ status = "done"
  /\ NoRootId(Url(start_resource))
  /\ saveLog = <<Url(start_resource)>>
  /\ visited = {Url(start_resource)}
  /\ \E l \in Candidates(Url(start_resource)) :
       /\ l \in DOMAIN Docs
       /\ Url(l) \notin Fetched

====
